---- MODULE Spec2Model ----
(***************************************************************************)
(* s3-janitor (janitor.py): purge(), the per-bucket worker that lists a    *)
(* bucket page by page, queues the keys at or before the cutoff and        *)
(* deletes them, and do(), which resolves the buckets and runs one purge   *)
(* per bucket on a ThreadPoolExecutor.                                      *)
(***************************************************************************)
EXTENDS Integers, Sequences, FiniteSets, TLC

\* ---------------------------------------------------------------- bounds
\* buckets visible to the credentials in a fleet run
NumBuckets == 2
\* objects of an exhaustively enumerated bucket listing
MaxObjs == 3
\* clock ticks that may elapse while a run is in progress
MaxTicks == 1
\* clock ticks per calendar day
TicksPerDay == 2

\* ------------------------------------------------------- program constant
\* to_be_deleted[i:i + 1000], range(0, len(to_be_deleted), 1000)
ChunkSize == 1000

\* sizes and page sizes of the large, regular listings; purge passes no
\* PaginationConfig, so the size of a page is whatever the endpoint returns
BigSizes == {1000, 1001, 2500}
BigPageSizes == {700, 1000, 1001}
\* values of --days
DaysChoices == {0, 1}

\* the clock at the start of a run: the last tick of a day
StartNow == 3 * TicksPerDay - 1
MaxNow == StartNow + MaxTicks

\* ------------------------------------------------------------ time, cutoff
\* date.today()
Today(t) == t \div TicksPerDay

\* datetime.combine(date.today(), datetime.min.time(), tzinfo=tzutc())
\*   - timedelta(days=max_days)
Cutoff(t, max_days) == (Today(t) - max_days) * TicksPerDay

\* (...).strftime('%Y-%m-%d'): the calendar day of the cutoff
CutoffDate(t, max_days) == Cutoff(t, max_days) \div TicksPerDay

\* the comparison without the filter: every listed key is queued
EligibleAlways(last_modified, c) == TRUE

\* the comparison made strict: an object exactly at the cutoff is kept
EligibleStrict(last_modified, c) == last_modified < c

\* last_modified <= cutoff
Eligible(last_modified, c) == last_modified <= c

\* ------------------------------------------------------------ sequences
RECURSIVE SumSeq(_)
SumSeq(s) == IF s = <<>> THEN 0 ELSE Head(s) + SumSeq(Tail(s))

RECURSIVE Flatten(_)
Flatten(ss) == IF ss = <<>> THEN <<>> ELSE Head(ss) \o Flatten(Tail(ss))

Range(s) == {s[i] : i \in DOMAIN s}

Min(a, b) == IF a <= b THEN a ELSE b

\* ------------------------------------------------------------ listings
Obj(k, lm) == [Key |-> k, LastModified |-> lm]

\* a page of a list_objects response; the response of an empty bucket
\* carries no 'Contents' entry
Page(objs) == [Contents |-> objs]
NoContentsPage == [IsTruncated |-> FALSE]

\* the ways of writing n as an ordered sum of page sizes >= 1
RECURSIVE Compositions(_)
Compositions(n) ==
    IF n = 0 THEN {<<>>}
    ELSE UNION {{<<k>> \o c : c \in Compositions(n - k)} : k \in 1..n}

\* the listing that delivers the objects objs in pages of the sizes given
RECURSIVE Paginate(_, _)
Paginate(objs, sizes) ==
    IF sizes = <<>> THEN <<>>
    ELSE <<Page(SubSeq(objs, 1, Head(sizes)))>>
         \o Paginate(SubSeq(objs, Head(sizes) + 1, Len(objs)), Tail(sizes))

\* what the paginator yields for objs split as sizes
ListingOf(objs, sizes) ==
    IF objs = <<>> THEN <<NoContentsPage>> ELSE Paginate(objs, sizes)

\* last-modified times around the cutoffs a run can compute
StampChoices ==
    LET c0 == Cutoff(StartNow, 1)
    IN  {c0, c0 + 1, c0 + TicksPerDay}

\* every listing of at most MaxObjs objects, under every pagination
SmallObjs ==
    UNION {{[i \in 1..n |-> Obj(i, ts[i])] : ts \in [1..n -> StampChoices]}
           : n \in 0..MaxObjs}

SmallListings ==
    UNION {{ListingOf(objs, sizes) : sizes \in Compositions(Len(objs))}
           : objs \in SmallObjs}

\* pages of sz objects each (the last one shorter)
RECURSIVE UniformSizes(_, _)
UniformSizes(n, sz) ==
    IF n = 0 THEN <<>>
    ELSE <<Min(n, sz)>> \o UniformSizes(n - Min(n, sz), sz)

\* n objects of which every third is newer than any cutoff, or all are old
BigObjs(n, mixed) ==
    [i \in 1..n |->
        Obj(i, IF mixed /\ i % 3 = 0 THEN MaxNow + 1 ELSE 0)]

BigListings ==
    {ListingOf(BigObjs(n, mixed), UniformSizes(n, sz)) :
        n \in BigSizes, sz \in BigPageSizes, mixed \in BOOLEAN}

\* three pages holding 2, 0 and 3 old objects among newer ones
ScenarioListing ==
    LET old == 0
        new == MaxNow + 1
    IN  << Page(<<Obj(1, old), Obj(2, new), Obj(3, old)>>),
           Page(<<Obj(4, new), Obj(5, new)>>),
           Page(<<Obj(6, old), Obj(7, old), Obj(8, new), Obj(9, old)>>) >>

\* listings of the buckets of a fleet run: an empty bucket, one page, two
FleetListings ==
    LET c0 == Cutoff(StartNow, 1)
    IN  << <<NoContentsPage>>,
           <<Page(<<Obj(1, c0), Obj(2, c0 + 1)>>)>>,
           <<Page(<<Obj(3, c0 + TicksPerDay)>>), Page(<<Obj(4, c0 - 1)>>)>> >>

\* ------------------------------------------------------------ buckets
BucketName(i) == <<IF i % 2 = 1 THEN "a" ELSE "b", i>>

\* b['Name'].startswith(bucket_prefix)
StartsWith(name, prefix) ==
    /\ Len(prefix) <= Len(name)
    /\ SubSeq(name, 1, Len(prefix)) = prefix

AllNames == [i \in 1..NumBuckets |-> BucketName(i)]

\* the fleet's buckets hold the fleet listings in turn, from any first one
FleetStores ==
    {[b \in Range(AllNames) |->
         FleetListings[((b[2] + k) % Len(FleetListings)) + 1]]
     : k \in 1..Len(FleetListings)}

\* ------------------------------------------------------------ state
VARIABLES
    args,           \* the parsed command line
    visible,        \* the names in client.list_buckets()['Buckets'], in order
    store,          \* per bucket, the pages its listing delivers
    max_workers,    \* size of the ThreadPoolExecutor
    now,            \* the wall clock
    dpc,            \* where do() is
    run_cutoff,     \* do(): the cutoff date it logs
    buckets,        \* do(): the resolved bucket names
    jobs,           \* do(): the submitted futures, by bucket
    queue,          \* the executor's work queue
    collected,      \* futures as_completed has yielded
    logged,         \* buckets whose exception do() logged
    pc,             \* per bucket, where its purge is
    cutoff,         \* purge: cutoff
    next_page,      \* purge: pages fetched so far
    page_queue,     \* purge: page_queue
    to_be_deleted,  \* purge: to_be_deleted
    total,          \* purge: total
    chunks,         \* purge: chunks
    chunk_i,        \* purge: chunks already sent
    calls,          \* per bucket, the client calls its purge made, in order
    queued          \* per bucket, the keys logged as '<key> queued'

env == <<args, visible, store, max_workers>>
dovars == <<dpc, run_cutoff, buckets, jobs, collected, logged>>
locals == <<cutoff, next_page, page_queue, to_be_deleted, total, chunks,
            chunk_i, queued>>
vars == <<env, now, dovars, queue, pc, locals, calls>>

\* list_then_delete = args.delete_method == 'list_then_delete'
list_then_delete == args.delete_method = "list_then_delete"
dry_run == args.dry_run

\* ------------------------------------------------------------ purge
\* the page loop stopping one object short of the end of the page
FilterPageShort(contents, c) ==
    LET Old(o) == Eligible(o.LastModified, c)
        sel == SelectSeq(SubSeq(contents, 1, Len(contents) - 1), Old)
    IN  [i \in 1..Len(sel) |-> sel[i].Key]

\* the keys of the objects of a page that are at or before the cutoff
FilterPage(contents, c) ==
    LET Old(o) == Eligible(o.LastModified, c)
        sel == SelectSeq(contents, Old)
    IN  [i \in 1..Len(sel) |-> sel[i].Key]

\* the slices one key too long: to_be_deleted[i:i + 1000 + 1]
ChunksOverlap(tbd) ==
    LET n == Len(tbd)
        k == (n + ChunkSize - 1) \div ChunkSize
    IN  [i \in 1..k |->
            SubSeq(tbd, (i - 1) * ChunkSize + 1, Min(i * ChunkSize + 1, n))]

\* [to_be_deleted[i:i + 1000] for i in range(0, len(to_be_deleted), 1000)]
Chunks(tbd) ==
    LET n == Len(tbd)
        k == (n + ChunkSize - 1) \div ChunkSize
    IN  [i \in 1..k |->
            SubSeq(tbd, (i - 1) * ChunkSize + 1, Min(i * ChunkSize, n))]

\* the per-page delete without its bool(page_queue) test
DeletesPageAlways(pq) == ~list_then_delete

\* the per-page delete without its list_then_delete test
DeletesPageAnyMethod(pq) == pq # <<>>

\* the per-page delete with its list_then_delete test inverted
DeletesPageInverted(pq) == list_then_delete /\ pq # <<>>

\* not list_then_delete and bool(page_queue)
DeletesPage(pq) == ~list_then_delete /\ pq # <<>>

\* the delete call without its dry_run test
CallsDeleteAlways == TRUE

\* if not dry_run: client.delete_objects(...)
CallsDelete == ~dry_run

\* the page's queue kept after its delete call
AfterPageDeleteKept(pq) == pq

\* page_queue = [] once the page's queue has been dealt with: line 81
AfterPageDelete(pq) == <<>>

\* total restarted with every page
AddTotalPerPage(t, pq) == Len(pq)

\* total += 1, once per queued key
AddTotal(t, pq) == t + Len(pq)

ListCall(b, ok) == [op |-> "list", Bucket |-> b, Keys |-> <<>>, ok |-> ok]

\* a delete call aimed at one bucket name shared by all the workers
DeleteCallSharedBucket(b, keys, ok) ==
    [op |-> "delete", Bucket |-> visible[1], Keys |-> keys, ok |-> ok]

\* client.delete_objects(Bucket=bucket, Delete={'Objects': ..., 'Quiet': True})
DeleteCall(b, keys, ok) ==
    [op |-> "delete", Bucket |-> b, Keys |-> keys, ok |-> ok]

Names == Range(visible)

Running == {b \in Names : pc[b] \in {"listing", "deleting_page", "final"}}
Terminal(b) == pc[b] \in {"done", "failed"}

\* a pool that stops taking work once some purge has raised
CanStartUnlessFailed(b) ==
    /\ queue # <<>>
    /\ Head(queue) = b
    /\ Cardinality(Running) < max_workers
    /\ \A a \in Names : pc[a] # "failed"

\* a pool that runs only as many jobs as it has workers
CanStartWithinPool(b) ==
    /\ queue # <<>>
    /\ Head(queue) = b
    /\ Cardinality(Running) < max_workers
    /\ \E i \in 1..max_workers : i <= Len(jobs) /\ jobs[i] = b

\* a pool worker takes the next work item off the queue
CanStart(b) ==
    /\ queue # <<>>
    /\ Head(queue) = b
    /\ Cardinality(Running) < max_workers

\* a worker thread starts purge(bucket, ...): lines 27-53
PurgeStart(b) ==
    /\ CanStart(b)
    /\ pc[b] = "queued"
    /\ queue' = Tail(queue)
    /\ pc' = [pc EXCEPT ![b] = "listing"]
    /\ cutoff' = [cutoff EXCEPT ![b] = Cutoff(now, args.days)]
    /\ to_be_deleted' = [to_be_deleted EXCEPT ![b] = <<>>]
    /\ total' = [total EXCEPT ![b] = 0]
    /\ UNCHANGED <<env, now, dovars, next_page, page_queue, chunks, chunk_i,
                   queued, calls>>

\* the paginator delivers the next page; lines 54-83 up to the delete call
FetchPage(b) ==
    /\ pc[b] = "listing"
    /\ next_page[b] < Len(store[b])
    /\ LET i == next_page[b] + 1
           page == store[b][i]
       IN  /\ next_page' = [next_page EXCEPT ![b] = i]
           /\ calls' = [calls EXCEPT ![b] = Append(@, ListCall(b, TRUE))]
           /\ IF "Contents" \notin DOMAIN page
              THEN \* page['Contents'] raises KeyError
                   /\ pc' = [pc EXCEPT ![b] = "failed"]
                   /\ page_queue' = [page_queue EXCEPT ![b] = <<>>]
                   /\ UNCHANGED <<total, queued, to_be_deleted>>
              ELSE LET pq == FilterPage(page.Contents, cutoff[b])
                   IN  /\ total' = [total EXCEPT ![b] = AddTotal(@, pq)]
                       /\ queued' = [queued EXCEPT ![b] = @ \o pq]
                       /\ IF DeletesPage(pq) /\ CallsDelete
                          THEN \* about to call client.delete_objects
                               /\ pc' = [pc EXCEPT ![b] = "deleting_page"]
                               /\ page_queue' = [page_queue EXCEPT ![b] = pq]
                               /\ UNCHANGED to_be_deleted
                          ELSE LET rest == IF DeletesPage(pq)
                                           THEN AfterPageDelete(pq) ELSE pq
                               IN  /\ page_queue' =
                                          [page_queue EXCEPT ![b] = rest]
                                   /\ to_be_deleted' =
                                          [to_be_deleted EXCEPT ![b] = @ \o rest]
                                   /\ UNCHANGED pc
    /\ UNCHANGED <<env, now, dovars, queue, cutoff, chunks, chunk_i>>

\* a page fetch that raises and is tried again
FetchPageFailRetry(b) ==
    /\ pc[b] = "listing"
    /\ next_page[b] < Len(store[b])
    /\ calls' = [calls EXCEPT ![b] = Append(@, ListCall(b, FALSE))]
    /\ UNCHANGED <<env, now, dovars, queue, pc, locals>>

\* the page fetch raises (transport or authorization error)
FetchPageFail(b) ==
    /\ pc[b] = "listing"
    /\ next_page[b] < Len(store[b])
    /\ calls' = [calls EXCEPT ![b] = Append(@, ListCall(b, FALSE))]
    /\ pc' = [pc EXCEPT ![b] = "failed"]
    /\ UNCHANGED <<env, now, dovars, queue, locals>>

\* client.delete_objects of the page's queue returns; lines 74-83
DeletePage(b) ==
    /\ pc[b] = "deleting_page"
    /\ calls' = [calls EXCEPT ![b] = Append(@, DeleteCall(b, page_queue[b], TRUE))]
    /\ page_queue' = [page_queue EXCEPT ![b] = AfterPageDelete(@)]
    /\ to_be_deleted' =
           [to_be_deleted EXCEPT ![b] = @ \o AfterPageDelete(page_queue[b])]
    /\ pc' = [pc EXCEPT ![b] = "listing"]
    /\ UNCHANGED <<env, now, dovars, queue, cutoff, next_page, total, chunks,
                   chunk_i, queued>>

\* client.delete_objects of the page's queue raises
DeletePageFail(b) ==
    /\ pc[b] = "deleting_page"
    /\ calls' = [calls EXCEPT ![b] = Append(@, DeleteCall(b, page_queue[b], FALSE))]
    /\ pc' = [pc EXCEPT ![b] = "failed"]
    /\ UNCHANGED <<env, now, dovars, queue, locals>>

\* the listing is exhausted; lines 86-95, and 97-108 when nothing is sent
ListingDone(b) ==
    /\ pc[b] = "listing"
    /\ next_page[b] = Len(store[b])
    /\ IF to_be_deleted[b] # <<>>
       THEN /\ chunks' = [chunks EXCEPT ![b] = Chunks(to_be_deleted[b])]
            /\ pc' = [pc EXCEPT ![b] = IF CallsDelete THEN "final" ELSE "done"]
       ELSE /\ pc' = [pc EXCEPT ![b] = "done"]
            /\ UNCHANGED chunks
    /\ UNCHANGED <<env, now, dovars, queue, cutoff, next_page, page_queue,
                   to_be_deleted, total, chunk_i, queued, calls>>

\* client.delete_objects of the next chunk returns; lines 97-108
DeleteChunk(b) ==
    /\ pc[b] = "final"
    /\ chunk_i[b] < Len(chunks[b])
    /\ LET i == chunk_i[b] + 1
       IN  /\ calls' = [calls EXCEPT
                          ![b] = Append(@, DeleteCall(b, chunks[b][i], TRUE))]
           /\ chunk_i' = [chunk_i EXCEPT ![b] = i]
           /\ pc' = [pc EXCEPT
                       ![b] = IF i = Len(chunks[b]) THEN "done" ELSE "final"]
    /\ UNCHANGED <<env, now, dovars, queue, cutoff, next_page, page_queue,
                   to_be_deleted, total, chunks, queued>>

\* client.delete_objects of the next chunk raises
DeleteChunkFail(b) ==
    /\ pc[b] = "final"
    /\ chunk_i[b] < Len(chunks[b])
    /\ calls' = [calls EXCEPT
                   ![b] = Append(@, DeleteCall(b, chunks[b][chunk_i[b] + 1], FALSE))]
    /\ pc' = [pc EXCEPT ![b] = "failed"]
    /\ UNCHANGED <<env, now, dovars, queue, locals>>

\* ------------------------------------------------------------ do
\* lines 130-136: raise SystemExit(...)
NothingToFind ==
    IF args.target_method = "prefix"
    THEN args.prefix = <<>>
    ELSE args.buckets = <<>>

\* lines 155-164: the visible buckets that match the preferred method
Resolve(names) ==
    LET Match(n) ==
            IF args.target_method = "prefix"
            THEN StartsWith(n, args.prefix)
            ELSE n \in Range(args.buckets)
    IN  SelectSeq(names, Match)

\* do() up to the executor: lines 117-164
DoStart ==
    /\ dpc = "start"
    /\ IF NothingToFind
       THEN /\ dpc' = "exit"
            /\ UNCHANGED <<run_cutoff, buckets>>
       ELSE /\ run_cutoff' = CutoffDate(now, args.days)
            /\ buckets' = Resolve(visible)
            /\ dpc' = "pool"
    /\ UNCHANGED <<env, now, jobs, collected, logged, queue, pc, locals, calls>>

\* client.list_buckets() raises
DoListBucketsFail ==
    /\ dpc = "start"
    /\ ~NothingToFind
    /\ run_cutoff' = CutoffDate(now, args.days)
    /\ dpc' = "raised"
    /\ UNCHANGED <<env, now, buckets, jobs, collected, logged, queue, pc,
                   locals, calls>>

\* jobs.append(tpe.submit(purge, bucket, ...)): lines 170-175
DoSubmit ==
    /\ dpc = "pool"
    /\ Len(jobs) < Len(buckets)
    /\ LET b == buckets[Len(jobs) + 1]
       IN  /\ jobs' = Append(jobs, b)
           /\ queue' = Append(queue, b)
           /\ pc' = [pc EXCEPT ![b] = "queued"]
    /\ UNCHANGED <<env, now, dpc, run_cutoff, buckets, collected, logged,
                   locals, calls>>

\* as_completed yields a finished job; job.result(), log.exception(e)
DoCollect(b) ==
    /\ dpc = "pool"
    /\ Len(jobs) = Len(buckets)
    /\ b \in Range(jobs) \ collected
    /\ Terminal(b)
    /\ collected' = collected \cup {b}
    /\ logged' = IF pc[b] = "failed" THEN logged \cup {b} ELSE logged
    /\ UNCHANGED <<env, now, dpc, run_cutoff, buckets, jobs, queue, pc,
                   locals, calls>>

\* a join that ends with the first finished job
JoinFirstCompleted ==
    /\ Len(jobs) = Len(buckets)
    /\ jobs = <<>> \/ collected # {}

\* every bucket is submitted and as_completed(jobs) is exhausted
JoinComplete ==
    /\ Len(jobs) = Len(buckets)
    /\ collected = Range(jobs)

\* the executor is shut down and do() returns: lines 167-182
DoReturn ==
    /\ dpc = "pool"
    /\ JoinComplete
    /\ dpc' = "returned"
    /\ UNCHANGED <<env, now, run_cutoff, buckets, jobs, collected, logged,
                   queue, pc, locals, calls>>

\* the wall clock advances while do() runs
Tick ==
    /\ dpc \in {"start", "pool"}
    /\ now < MaxNow
    /\ now' = now + 1
    /\ UNCHANGED <<env, dovars, queue, pc, locals, calls>>

\* ------------------------------------------------------------ runs
Args(days, dry, method, target, prefix, targets) ==
    [days |-> days, dry_run |-> dry, delete_method |-> method,
     target_method |-> target, prefix |-> prefix, buckets |-> targets]

DeleteMethods == {"list_then_delete", "delete_every_page"}

\* one bucket, any listing
SingleArgs ==
    {Args(d, dry, m, "prefix", <<"a">>, <<>>) :
        d \in DaysChoices, dry \in BOOLEAN, m \in DeleteMethods}

\* several buckets, selected by prefix or by name
FleetArgs ==
    {Args(1, dry, m, "buckets", <<>>, <<BucketName(0)>> \o AllNames) :
        dry \in BOOLEAN, m \in DeleteMethods}
    \cup
    {Args(1, FALSE, "delete_every_page", "prefix", p, <<>>) :
        p \in {<<>>, <<"a">>, <<"z">>}}
    \cup
    {Args(1, FALSE, "list_then_delete", "buckets", <<>>, p) :
        p \in {<<>>, <<BucketName(2)>>}}

InitRun(names) ==
    /\ visible = names
    /\ now = StartNow
    /\ dpc = "start"
    /\ run_cutoff = 0
    /\ buckets = <<>>
    /\ jobs = <<>>
    /\ queue = <<>>
    /\ collected = {}
    /\ logged = {}
    /\ pc = [b \in Range(names) |-> "idle"]
    /\ cutoff = [b \in Range(names) |-> 0]
    /\ next_page = [b \in Range(names) |-> 0]
    /\ page_queue = [b \in Range(names) |-> <<>>]
    /\ to_be_deleted = [b \in Range(names) |-> <<>>]
    /\ total = [b \in Range(names) |-> 0]
    /\ chunks = [b \in Range(names) |-> <<>>]
    /\ chunk_i = [b \in Range(names) |-> 0]
    /\ calls = [b \in Range(names) |-> <<>>]
    /\ queued = [b \in Range(names) |-> <<>>]

InitSingle ==
    /\ args \in SingleArgs
    /\ store \in [{BucketName(1)} ->
                    SmallListings \cup BigListings \cup {ScenarioListing}]
    /\ max_workers = 1
    /\ InitRun(<<BucketName(1)>>)

InitFleet ==
    /\ args \in FleetArgs
    /\ store \in FleetStores
    /\ max_workers \in {1, NumBuckets}
    /\ InitRun(AllNames)

Init == InitSingle \/ InitFleet

Next ==
    \/ DoStart
    \/ DoListBucketsFail
    \/ DoSubmit
    \/ \E b \in Names : DoCollect(b)
    \/ DoReturn
    \/ Tick
    \/ \E b \in Names : PurgeStart(b)
    \/ \E b \in Names : FetchPage(b)
    \/ \E b \in Names : FetchPageFail(b)
    \/ \E b \in Names : DeletePage(b)
    \/ \E b \in Names : DeletePageFail(b)
    \/ \E b \in Names : ListingDone(b)
    \/ \E b \in Names : DeleteChunk(b)
    \/ \E b \in Names : DeleteChunkFail(b)

Spec == Init /\ [][Next]_vars

\* every thread is scheduled again and again and every client call returns
\* or raises; the clock is not obliged to advance
Fairness ==
    /\ WF_vars(DoStart \/ DoListBucketsFail)
    /\ WF_vars(DoSubmit)
    /\ WF_vars(DoReturn)
    /\ \A b \in Range(AllNames) :
          /\ WF_vars(DoCollect(b))
          /\ WF_vars(PurgeStart(b))
          /\ WF_vars(FetchPage(b) \/ FetchPageFail(b))
          /\ WF_vars(DeletePage(b) \/ DeletePageFail(b))
          /\ WF_vars(ListingDone(b))
          /\ WF_vars(DeleteChunk(b) \/ DeleteChunkFail(b))

\* the fleet runs, with the scheduling guarantees of the thread pool
FairSpec == InitFleet /\ [][Next]_vars /\ Fairness

\* ------------------------------------------------------------ observations
IsDelete(c) == c.op = "delete"

\* the delete_objects calls of a bucket's purge, in order
DeleteCalls(b) == SelectSeq(calls[b], IsDelete)

\* the key lists of those calls
DeleteKeys(b) == [i \in 1..Len(DeleteCalls(b)) |-> DeleteCalls(b)[i].Keys]

\* the objects of one page, and of the whole bucket in listing order
ContentsOf(page) ==
    IF "Contents" \in DOMAIN page THEN page.Contents ELSE <<>>

Objects(b) == Flatten([i \in 1..Len(store[b]) |-> ContentsOf(store[b][i])])

\* the keys of the objects last modified at or before c, in order
KeysAtOrBefore(objs, c) ==
    LET AtOrBefore(o) == o.LastModified <= c
        sel == SelectSeq(objs, AtOrBefore)
    IN  [i \in 1..Len(sel) |-> sel[i].Key]

\* the keys of the objects last modified strictly after c
KeysAfter(objs, c) ==
    {o.Key : o \in {x \in Range(objs) : x.LastModified > c}}

\* per page, the keys at or before the cutoff of the bucket's purge
PageKeys(b) ==
    [i \in 1..Len(store[b]) |->
        KeysAtOrBefore(ContentsOf(store[b][i]), cutoff[b])]

NonEmpty(s) == s # <<>>

Done(b) == pc[b] = "done"

\* ------------------------------------------------------------ properties

\* C1: under either policy, dry-run or not, and for any pagination, no key
\* last modified strictly after the cutoff of the purge is in the page
\* queue, in to_be_deleted, in a chunk, or in the keys of a delete call.
NoNewerKeyQueued ==
    \A b \in Names :
        LET newer == KeysAfter(Objects(b), cutoff[b])
        IN  /\ Range(page_queue[b]) \cap newer = {}
            /\ Range(to_be_deleted[b]) \cap newer = {}
            /\ Range(queued[b]) \cap newer = {}
            /\ \A i \in DOMAIN chunks[b] : Range(chunks[b][i]) \cap newer = {}
            /\ \A i \in DOMAIN calls[b] : Range(calls[b][i].Keys) \cap newer = {}

\* a purge that listed a newer object has sent a delete call and finished
NewerKeyKept ==
    \E b \in Names :
        /\ Done(b)
        /\ KeysAfter(Objects(b), cutoff[b]) # {}
        /\ DeleteCalls(b) # <<>>

\* C2: when a purge without dry-run is done, the keys of its delete calls
\* are together exactly the listed keys last modified at or before the
\* cutoff, those exactly at the cutoff included.
DeletesExactlyEligible ==
    \A b \in Names :
        Done(b) /\ ~args.dry_run =>
            UNION {Range(DeleteKeys(b)[i]) : i \in DOMAIN DeleteKeys(b)}
                = Range(KeysAtOrBefore(Objects(b), cutoff[b]))

\* a finished purge deleted an object exactly at the cutoff and kept a newer
DeletedAtCutoff ==
    \E b \in Names :
        /\ Done(b)
        /\ ~args.dry_run
        /\ KeysAfter(Objects(b), cutoff[b]) # {}
        /\ \E o \in Range(Objects(b)) :
              /\ o.LastModified = cutoff[b]
              /\ \E i \in DOMAIN DeleteKeys(b) : o.Key \in Range(DeleteKeys(b)[i])

\* C3: list_then_delete without dry-run, done, K eligible keys: exactly
\* ceil(K/1000) delete calls, each of 1 to 1000 keys, every eligible key in
\* exactly one call.
GlobalChunkedCalls ==
    \A b \in Names :
        Done(b) /\ ~args.dry_run /\ args.delete_method = "list_then_delete" =>
            LET eligible == KeysAtOrBefore(Objects(b), cutoff[b])
                K == Len(eligible)
                sent == Flatten(DeleteKeys(b))
            IN  /\ Len(DeleteKeys(b)) = (K + 999) \div 1000
                /\ \A i \in DOMAIN DeleteKeys(b) :
                      Len(DeleteKeys(b)[i]) \in 1..1000
                /\ Len(sent) = K
                /\ Range(sent) = Range(eligible)
                /\ Cardinality(Range(sent)) = K

\* 2500 eligible keys went out as calls of 1000, 1000 and 500 keys
ThreeChunksSent ==
    \E b \in Names :
        /\ Done(b)
        /\ args.delete_method = "list_then_delete"
        /\ Len(KeysAtOrBefore(Objects(b), cutoff[b])) = 2500
        /\ [i \in DOMAIN DeleteKeys(b) |-> Len(DeleteKeys(b)[i])]
              = <<1000, 1000, 500>>

\* C4: delete_every_page without dry-run, done: one delete call per page
\* with a non-empty eligible subset, carrying exactly that page's eligible
\* keys, none for the other pages; the total is the sum over the pages.
PerPageCalls ==
    \A b \in Names :
        Done(b) /\ ~args.dry_run /\ args.delete_method = "delete_every_page" =>
            /\ DeleteKeys(b) = SelectSeq(PageKeys(b), NonEmpty)
            /\ total[b] = SumSeq([i \in DOMAIN PageKeys(b) |-> Len(PageKeys(b)[i])])

\* pages with 2, 0 and 3 eligible objects gave 2 calls and a total of 5
TwoCallsForThreePages ==
    \E b \in Names :
        /\ Done(b)
        /\ ~args.dry_run
        /\ args.delete_method = "delete_every_page"
        /\ [i \in DOMAIN PageKeys(b) |-> Len(PageKeys(b)[i])] = <<2, 0, 3>>
        /\ Len(DeleteCalls(b)) = 2
        /\ total[b] = 5

\* C5: with dry_run no purge ever makes a delete call.
DryRunNeverDeletes ==
    args.dry_run => \A b \in Names : DeleteCalls(b) = <<>>

\* a dry run of delete_every_page finished a bucket with keys to delete
DryRunFoundKeys ==
    \E b \in Names :
        /\ args.dry_run
        /\ Done(b)
        /\ total[b] > 0
        /\ args.delete_method = "delete_every_page"

\* C6: the total of a finished purge is the number of listed objects last
\* modified at or before the cutoff, whatever the policy and dry_run; without
\* dry-run it is the sum of the sizes of the delete calls.
TotalIsEligibleCount ==
    \A b \in Names :
        Done(b) =>
            /\ total[b] = Len(KeysAtOrBefore(Objects(b), cutoff[b]))
            /\ ~args.dry_run =>
                  total[b] = SumSeq([i \in DOMAIN DeleteKeys(b) |->
                                        Len(DeleteKeys(b)[i])])

\* a dry run over several pages with eligible objects reported its total
DryRunTotalOverPages ==
    \E b \in Names :
        /\ Done(b)
        /\ args.dry_run
        /\ args.delete_method = "list_then_delete"
        /\ Cardinality({i \in DOMAIN PageKeys(b) : PageKeys(b)[i] # <<>>}) >= 2
        /\ total[b] >= 2

\* C7: the keys a finished purge marked eligible, and its total, are those
\* of the listing taken in one piece, however the listing was paginated.
PaginationInvariant ==
    \A b \in Names :
        Done(b) =>
            /\ queued[b] = KeysAtOrBefore(Objects(b), cutoff[b])
            /\ total[b] = Len(queued[b])

\* a listing split after its first object, with eligible keys on both sides
SplitListingPurged ==
    \E b \in Names :
        /\ Done(b)
        /\ Len(store[b]) >= 2
        /\ Len(ContentsOf(store[b][1])) = 1
        /\ PageKeys(b)[1] # <<>>
        /\ PageKeys(b)[2] # <<>>
        /\ KeysAfter(Objects(b), cutoff[b]) # {}

\* s cut into consecutive pieces of n keys, the last one shorter
RECURSIVE SplitEvery(_, _)
SplitEvery(s, n) ==
    IF s = <<>> THEN <<>>
    ELSE <<SubSeq(s, 1, Min(n, Len(s)))>>
         \o SplitEvery(SubSeq(s, Min(n, Len(s)) + 1, Len(s)), n)

\* the key lists a purge of b sends when nothing raises, given b's listing,
\* its cutoff and the command line alone
ReferenceCalls(b) ==
    IF args.dry_run THEN <<>>
    ELSE IF args.delete_method = "list_then_delete"
         THEN SplitEvery(KeysAtOrBefore(Objects(b), cutoff[b]), 1000)
         ELSE SelectSeq(PageKeys(b), NonEmpty)

IsPrefix(s, t) == Len(s) <= Len(t) /\ s = SubSeq(t, 1, Len(s))

Started(b) == pc[b] \notin {"idle", "queued"}

\* C8: once the purge of some bucket has failed, every other resolved
\* bucket still reaches done or failed, and the delete calls it makes are
\* those its own listing calls for: always a prefix of them, and all of them
\* once it is done.
FailureIsolated ==
    /\ [](\A a, b \in Range(AllNames) :
            a # b /\ pc[a] = "failed" =>
                /\ IsPrefix(DeleteKeys(b), ReferenceCalls(b))
                /\ Done(b) => DeleteKeys(b) = ReferenceCalls(b))
    /\ (\E a \in Range(AllNames) : pc[a] = "failed")
          ~> (\A b \in Range(buckets) : Terminal(b))

\* one purge failed, and a sibling started after that sent its deletes
SiblingDoneAfterFailure ==
    \E a, b \in Names :
        /\ a # b
        /\ pc[a] = "failed"
        /\ Done(b)
        /\ DeleteCalls(b) # <<>>
        /\ max_workers = 1
        /\ jobs = <<a, b>>

\* C9: do() submits one purge per resolved bucket, each bucket once, and
\* has not returned while a purge is queued or running, whichever purges
\* failed.
AllTasksJoined ==
    /\ IsPrefix(jobs, buckets)
    /\ \A i, j \in DOMAIN jobs : jobs[i] = jobs[j] => i = j
    /\ \A b \in Names : pc[b] # "idle" <=> b \in Range(jobs)
    /\ dpc = "returned" =>
          /\ jobs = buckets
          /\ \A b \in Range(buckets) : Terminal(b)

\* do() returned from a run in which one purge failed and another finished
ReturnedAfterFailure ==
    \E a, b \in Names :
        /\ dpc = "returned"
        /\ pc[a] = "failed"
        /\ Done(b)
        /\ a \in logged

\* C10: every purge of a run compares against the one cutoff fixed when the
\* run started, also when the calendar day changes before a purge starts.
OneCutoffPerRun ==
    \A a, b \in Names :
        Started(a) /\ Started(b) =>
            /\ cutoff[a] = cutoff[b]
            /\ cutoff[a] = run_cutoff * TicksPerDay

\* C11: every delete call of a purge carries at least 1 and at most 1000
\* keys, under either policy and for any page the listing delivers.
DeleteCallSizeBounded ==
    \A b \in Names :
        \A i \in DOMAIN DeleteKeys(b) : Len(DeleteKeys(b)[i]) \in 1..1000

\* C12: do() ends abnormally only for a configuration error found before
\* any purge is submitted, and resolving no bucket is such an error: do()
\* never reaches the executor with an empty bucket list, an abort leaves
\* every purge unstarted, and a failed purge never makes do() abort.
OnlyFatalConfigAborts ==
    /\ dpc \in {"pool", "returned"} => buckets # <<>>
    /\ dpc \in {"exit", "raised"} => \A b \in Names : pc[b] = "idle"
    /\ logged # {} => dpc \in {"pool", "returned"}

IsList(c) == c.op = "list"

\* C13: a client call of a purge that raised is the last call of that purge,
\* and the purge is failed: nothing is retried, nothing further attempted.
FailedCallIsLast ==
    \A b \in Names :
        /\ \A i \in DOMAIN calls[b] :
              ~calls[b][i].ok => i = Len(calls[b]) /\ pc[b] = "failed"
        /\ pc[b] = "failed" /\ calls[b] # <<>> =>
              \/ ~calls[b][Len(calls[b])].ok
              \/ /\ IsList(calls[b][Len(calls[b])])
                 /\ "Contents" \notin DOMAIN store[b][next_page[b]]

\* a delete call failed after an earlier one succeeded, with pages left
FailedWithPagesLeft ==
    \E b \in Names :
        /\ pc[b] = "failed"
        /\ next_page[b] < Len(store[b])
        /\ Len(DeleteCalls(b)) >= 2
        /\ ~calls[b][Len(calls[b])].ok
        /\ IsDelete(calls[b][Len(calls[b])])

\* C14: under list_then_delete no delete call precedes a page fetch: when a
\* delete call has been made every page has been fetched successfully, so a
\* listing that failed has no delete call.
DeletesAfterListing ==
    args.delete_method = "list_then_delete" =>
        \A b \in Names :
            /\ DeleteCalls(b) # <<>> =>
                  /\ next_page[b] = Len(store[b])
                  /\ Len(SelectSeq(calls[b], IsList)) = Len(store[b])
                  /\ \A i \in DOMAIN calls[b] :
                        IsList(calls[b][i]) => calls[b][i].ok
            /\ \A i, j \in DOMAIN calls[b] :
                  IsDelete(calls[b][i]) /\ IsList(calls[b][j]) => j < i
            /\ (\E i \in DOMAIN calls[b] :
                   IsList(calls[b][i]) /\ ~calls[b][i].ok)
                  => DeleteCalls(b) = <<>>

\* a listing of several pages was fetched to its end and then deleted from
ListedThenDeleted ==
    \E b \in Names :
        /\ args.delete_method = "list_then_delete"
        /\ Len(store[b]) >= 2
        /\ DeleteCalls(b) # <<>>
        /\ KeysAtOrBefore(ContentsOf(store[b][1]), cutoff[b]) # <<>>

\* the number of page fetches among the first j calls of b
FetchesUpTo(b, j) == Len(SelectSeq(SubSeq(calls[b], 1, j), IsList))

\* C15: under delete_every_page without dry-run the pages are taken in
\* listing order, and when page k is fetched (or its fetch fails) the delete
\* calls made so far have all returned and are exactly those of the pages
\* before k that hold eligible keys.
PageDeletedBeforeNextFetch ==
    args.delete_method = "delete_every_page" /\ ~args.dry_run =>
        \A b \in Names :
            /\ queued[b] = Flatten(SubSeq(PageKeys(b), 1, next_page[b]))
            /\ \A j \in DOMAIN calls[b] :
                  IsList(calls[b][j]) =>
                      LET before == SelectSeq(SubSeq(calls[b], 1, j - 1), IsDelete)
                      IN  /\ \A i \in DOMAIN before : before[i].ok
                          /\ [i \in DOMAIN before |-> before[i].Keys]
                               = SelectSeq(SubSeq(PageKeys(b), 1,
                                                  FetchesUpTo(b, j) - 1),
                                           NonEmpty)

\* the fetch of a later page failed after earlier pages had been deleted
LaterFetchFailed ==
    \E b \in Names :
        /\ args.delete_method = "delete_every_page"
        /\ pc[b] = "failed"
        /\ IsList(calls[b][Len(calls[b])])
        /\ ~calls[b][Len(calls[b])].ok
        /\ FetchesUpTo(b, Len(calls[b])) >= 2
        /\ DeleteCalls(b) # <<>>

\* C16: under delete_every_page to_be_deleted stays empty, no chunked delete
\* follows the listing and no key is sent twice; under list_then_delete no
\* page is deleted on its own and the delete calls are the chunks.
PoliciesExclusive ==
    \A b \in Names :
        /\ args.delete_method = "delete_every_page" =>
              /\ to_be_deleted[b] = <<>>
              /\ chunks[b] = <<>>
              /\ pc[b] # "final"
              /\ Len(DeleteCalls(b)) <= next_page[b]
              /\ Cardinality(Range(Flatten(DeleteKeys(b))))
                     = Len(Flatten(DeleteKeys(b)))
        /\ args.delete_method = "list_then_delete" =>
              /\ pc[b] # "deleting_page"
              /\ IsPrefix(DeleteKeys(b), chunks[b])

\* a per-page purge deleted from two pages and finished with nothing left
PerPageLeftNothing ==
    \E b \in Names :
        /\ args.delete_method = "delete_every_page"
        /\ Done(b)
        /\ Len(DeleteCalls(b)) >= 2
        /\ to_be_deleted[b] = <<>>

\* C17: with fair scheduling, once do() has reached the executor it returns,
\* and by then every resolved bucket's purge is done or failed, also when
\* there are more buckets than workers.
RunTerminates ==
    (dpc = "pool") ~>
        (dpc = "returned" /\ \A b \in Range(buckets) : Terminal(b))

\* do() returned from a run with more purges than workers
QueuedPurgeFinished ==
    /\ dpc = "returned"
    /\ max_workers < Len(jobs)
    /\ \A b \in Range(jobs) : Terminal(b)

\* the keys b's purge has listed so far
ListedKeys(b) ==
    LET objs == Flatten([i \in 1..next_page[b] |-> ContentsOf(store[b][i])])
    IN  {objs[i].Key : i \in DOMAIN objs}

\* C18: every call of b's purge names bucket b and carries only keys that
\* purge listed from b, and b's total counts the eligible objects of the
\* pages of b fetched so far and nothing else.
TasksShareNothing ==
    \A b \in Names :
        LET listed == ListedKeys(b)
        IN  /\ \A i \in DOMAIN calls[b] :
                  /\ calls[b][i].Bucket = b
                  /\ Range(calls[b][i].Keys) \subseteq listed
            /\ Started(b) =>
                  total[b] = Len(Flatten(SubSeq(PageKeys(b), 1, next_page[b])))

\* two purges running side by side have both sent delete calls
TwoPurgesDeleting ==
    \E a, b \in Names :
        /\ a # b
        /\ pc[a] \in {"listing", "deleting_page", "final"}
        /\ pc[b] \in {"listing", "deleting_page", "final"}
        /\ DeleteCalls(a) # <<>>
        /\ DeleteCalls(b) # <<>>
        /\ ListedKeys(a) \cap ListedKeys(b) = {}

\* C19: the purge of a bucket without objects, when no client call raises,
\* ends done with a total of 0 and no delete call.
EmptyBucketDone ==
    \A b \in Names :
        /\ Objects(b) = <<>>
        /\ Terminal(b)
        /\ \A i \in DOMAIN calls[b] : calls[b][i].ok
        => /\ Done(b)
           /\ total[b] = 0
           /\ DeleteCalls(b) = <<>>

====
